---- MODULE Spec2Model ----
(***************************************************************************)
(* Model of the unstructured-data pipeline: ContentExtractor               *)
(* (src/src/content_extraction.py), DeepReviewer (src/src/deep_review.py)  *)
(* and UnstructuredDataPipeline (src/src/pipeline.py).                     *)
(*                                                                         *)
(* A Python str is a sequence of one-character strings.  A float that the  *)
(* code produces (confidence, score) is kept in hundredths (0.8 is 80),    *)
(* which is exact for the values they take; average_word_length, the       *)
(* quotient of two integers, is kept as the fraction [num, den] in lowest  *)
(* terms.  An empty dict is the empty function.                            *)
(* A Python value that may or may not be a str is a record                 *)
(* [t |-> type name, s |-> its characters] (s is empty for None).          *)
(***************************************************************************)
EXTENDS Integers, Sequences, FiniteSets, TLC

VARIABLES
  supported_formats,  \* ContentExtractor.supported_formats
  validation_rules,   \* DeepReviewer.validation_rules
  pc,                 \* "idle": no call in progress; "done": a call has ended
  op,                 \* the operation of the last call
  args,               \* its arguments
  outcome,            \* "return" or "raise"
  ret,                \* the value returned (outcome = "return")
  exc,                \* the exception raised (outcome = "raise")
  trace               \* the operations the call ran, in order

vars == <<supported_formats, validation_rules, pc, op, args, outcome, ret, exc, trace>>

(***************************************************************************)
(* Bounds of the model.                                                    *)
(***************************************************************************)
MaxLen == 3        \* longest text given to a single call
MaxBatch == 2      \* longest batch given to process_batch
MaxCount == 6      \* largest count in a synthetic text_data / metadata dict
MaxWords == 3      \* longest synthetic word list given to verify_words

(***************************************************************************)
(* Characters.                                                             *)
(***************************************************************************)
\* What \s matches and str.strip() removes, among the ASCII characters:
\* space, \t, \n, \r, \f, \v (U+000B) and the separators U+001C..U+001F.
Whitespace == {" ", "\n", "\t", "\r", "\f", "", "", "", "", ""}

UpperLetters == <<"A","B","C","D","E","F","G","H","I","J","K","L","M",
                  "N","O","P","Q","R","S","T","U","V","W","X","Y","Z">>

LowerLetters == <<"a","b","c","d","e","f","g","h","i","j","k","l","m",
                  "n","o","p","q","r","s","t","u","v","w","x","y","z">>

Digits == {"0","1","2","3","4","5","6","7","8","9"}

\* letters outside ASCII (two bytes each in UTF-8)
NonAsciiLetters == {"é"}

AsciiLetters == {UpperLetters[i] : i \in 1..26} \cup {LowerLetters[i] : i \in 1..26}

IsSpace(c) == c \in Whitespace

\* str.isalpha / str.isdigit / str.isalnum of one character
IsAlphaChar(c) == c \in AsciiLetters \cup NonAsciiLetters

IsDigitChar(c) == c \in Digits

\* \w: alphanumeric or underscore
WordChars == AsciiLetters \cup NonAsciiLetters \cup Digits \cup {"_"}

IsWordChar(c) == c \in WordChars

\* str.lower of one character
LowerChar(c) ==
  IF \E i \in 1..26 : UpperLetters[i] = c
    THEN LowerLetters[CHOOSE i \in 1..26 : UpperLetters[i] = c]
    ELSE c

\* str.lower
Lower(s) == [i \in 1..Len(s) |-> LowerChar(s[i])]

\* length of the UTF-8 encoding of one character
Utf8Len(c) == IF c \in NonAsciiLetters THEN 2 ELSE 1

(***************************************************************************)
(* String primitives of Python, over character sequences.                  *)
(***************************************************************************)
Drop(s, n) == SubSeq(s, n + 1, Len(s))

Take(s, n) == SubSeq(s, 1, n)

\* s.startswith(p)
StartsWith(s, p) == Len(p) <= Len(s) /\ Take(s, Len(p)) = p

\* s.endswith(p)
EndsWith(s, p) == Len(p) <= Len(s) /\ Drop(s, Len(s) - Len(p)) = p

\* c in s, for one character c
Contains(s, c) == \E i \in 1..Len(s) : s[i] = c

\* s.count(c), for one character c
CountChar(s, c) == Cardinality({i \in 1..Len(s) : s[i] = c})

\* 1, 2, ..., n
Indices(n) == [i \in 1..n |-> i]

\* the least element of a non-empty set of numbers
Min(ns) == CHOOSE n \in ns : \A m \in ns : n <= m

\* length of the longest prefix of s made of characters of the set cs
SpanLen(s, cs) ==
  IF \A i \in 1..Len(s) : s[i] \in cs THEN Len(s)
  ELSE Min({i \in 1..Len(s) : s[i] \notin cs}) - 1

\* length of the longest suffix of s made of characters of the set cs
TrailingSpanLen(s, cs) ==
  IF \A i \in 1..Len(s) : s[i] \in cs THEN Len(s)
  ELSE Min({n \in 0..(Len(s) - 1) : s[Len(s) - n] \notin cs})

LStrip(s) == Drop(s, SpanLen(s, Whitespace))

RStrip(s) == Take(s, Len(s) - TrailingSpanLen(s, Whitespace))

\* s.strip()
Strip(s) == RStrip(LStrip(s))

\* re.sub(r'\s+', ' ', s): every maximal run of whitespace becomes one space
\* (the first character of each run is kept, as a space)
CollapseWhitespace(s) ==
  LET Keep(i) == ~IsSpace(s[i]) \/ i = 1 \/ ~IsSpace(s[i - 1])
      kept == SelectSeq(Indices(Len(s)), Keep)
  IN [k \in 1..Len(kept) |-> IF IsSpace(s[kept[k]]) THEN " " ELSE s[kept[k]]]

\* a bug: the text is not trimmed after the whitespace runs are collapsed
CleanWithoutTrim(data) == CollapseWhitespace(data)

\* the cleaning step of parse_text
Clean(data) == Strip(CollapseWhitespace(data))

\* [.!?]
SentenceEnds == {".", "!", "?"}

\* re.split(r'[.!?]+', s): the pieces between maximal runs of . ! ?,
\* empty pieces included (cur is put before the first piece).  A piece
\* starts at 1 and after the last character of each run, and goes up to the
\* next . ! ?
SplitSentences(s, cur) ==
  LET AfterRun(i) == i > 1 /\ s[i - 1] \in SentenceEnds
                       /\ (i > Len(s) \/ s[i] \notin SentenceEnds)
      starts == <<1>> \o SelectSeq(Indices(Len(s) + 1), AfterRun)
      Piece(p) == SubSeq(s, p, p + SpanLen(Drop(s, p - 1), {s[i] : i \in 1..Len(s)} \ SentenceEnds) - 1)
  IN [k \in 1..Len(starts) |->
        IF k = 1 THEN cur \o Piece(starts[k]) ELSE Piece(starts[k])]

\* [s.strip() for s in pieces if s.strip()]
KeepNonEmptyStripped(pieces) ==
  LET NonEmpty(piece) == Strip(piece) # <<>>
      kept == SelectSeq(pieces, NonEmpty)
  IN [k \in 1..Len(kept) |-> Strip(kept[k])]

\* re.findall(r'\b\w+\b', s): the maximal runs of word characters, in order
FindWords(s) ==
  LET RunStart(i) == IsWordChar(s[i]) /\ (i = 1 \/ ~IsWordChar(s[i - 1]))
      starts == SelectSeq(Indices(Len(s)), RunStart)
  IN [k \in 1..Len(starts) |->
        SubSeq(s, starts[k], starts[k] + SpanLen(Drop(s, starts[k] - 1), WordChars) - 1)]

\* the positions of s where p occurs
Matches(s, p) ==
  {i \in 1..(Len(s) - Len(p) + 1) : SubSeq(s, i, i + Len(p) - 1) = p}

\* the occurrences of p in s from position from on, that do not overlap,
\* taken left to right
RECURSIVE CountFrom(_, _, _)
CountFrom(s, p, from) ==
  LET later == {i \in Matches(s, p) : i >= from}
  IN IF later = {} THEN 0 ELSE 1 + CountFrom(s, p, Min(later) + Len(p))

\* s.count(p) for a non-empty p
CountSub(s, p) == CountFrom(s, p, 1)

\* the index of the last c in s, 0 when there is none
LastIndexOf(s, c) ==
  IF Contains(s, c) THEN CHOOSE i \in 1..Len(s) :
                            s[i] = c /\ \A j \in (i + 1)..Len(s) : s[j] # c
  ELSE 0

\* x in xs, for a list xs
InList(x, xs) == \E i \in 1..Len(xs) : xs[i] = x

\* sum(ns), halving the list
RECURSIVE SumSeq(_)
SumSeq(ns) ==
  IF ns = <<>> THEN 0
  ELSE IF Len(ns) = 1 THEN ns[1]
  ELSE SumSeq(Take(ns, Len(ns) \div 2)) + SumSeq(Drop(ns, Len(ns) \div 2))

(***************************************************************************)
(* The strings the code names.                                             *)
(***************************************************************************)
txt == <<"t","x","t">>

json == <<"j","s","o","n">>

csv == <<"c","s","v">>

xml == <<"x","m","l">>

html == <<"h","t","m","l">>

md == <<"m","d">>

unknown == <<"u","n","k","n","o","w","n">>

\* ContentExtractor.__init__
SupportedFormatsInit == <<txt, json, csv, xml, html, md>>

\* DeepReviewer.__init__
ValidationRulesInit == [min_words |-> 1, min_chars |-> 1, max_empty_lines |-> 10]

common_english_words ==
  << <<"t","h","e">>, <<"i","s">>, <<"a","t">>, <<"w","h","i","c","h">>,
     <<"o","n">>, <<"a">>, <<"a","n">> >>

(***************************************************************************)
(* ContentExtractor                                                        *)
(***************************************************************************)
\* a bug: the characters are counted after cleaning
CharCountOfCleaned(data, cleaned) == Len(cleaned)

\* 'char_count': len(data)
CharCount(data, cleaned) == Len(data)

\* a bug: the words are cleaned.split(' '), and "".split(' ') is [''], so an
\* empty text has one word
WordsBySplit(cleaned) ==
  LET Start(i) == i = 1 \/ cleaned[i - 1] = " "
      starts == SelectSeq(Indices(Len(cleaned) + 1), Start)
  IN [k \in 1..Len(starts) |->
        SubSeq(cleaned, starts[k],
               starts[k] + SpanLen(Drop(cleaned, starts[k] - 1),
                                   {cleaned[i] : i \in 1..Len(cleaned)} \ {" "}) - 1)]

\* words = re.findall(r'\b\w+\b', cleaned)
Words(cleaned) == FindWords(cleaned)

\* a bug: the piece after the last terminator is taken to be empty
SentencesButLast(cleaned) ==
  LET pieces == SplitSentences(cleaned, <<>>)
  IN KeepNonEmptyStripped(Take(pieces, Len(pieces) - 1))

\* re.split(r'[.!?]+', cleaned), the non-blank pieces stripped
Sentences(cleaned) == KeepNonEmptyStripped(SplitSentences(cleaned, <<>>))

\* parse_text on a str
parse_text(data) ==
  LET cleaned == Clean(data)
      sentences == Sentences(cleaned)
      words == Words(cleaned)
  IN [raw |-> data,
      cleaned |-> cleaned,
      sentences |-> sentences,
      words |-> words,
      sentence_count |-> Len(sentences),
      word_count |-> Len(words),
      char_count |-> CharCount(data, cleaned)]

\* a bug: a listed word at the start of the text is not counted again
EnglishCountWithoutStart(data_lower) ==
  LET sp == <<" ">>
  IN SumSeq([i \in 1..Len(common_english_words) |->
               LET word == common_english_words[i]
               IN CountSub(data_lower, sp \o word \o sp)
                    + CountSub(data_lower, sp \o word)
                    + CountSub(data_lower, word \o sp)])

\* english_count: the three counts of every listed word, then one more for
\* every listed word the text starts with
EnglishCount(data_lower) ==
  LET sp == <<" ">>
  IN SumSeq([i \in 1..Len(common_english_words) |->
               LET word == common_english_words[i]
               IN CountSub(data_lower, sp \o word \o sp)
                    + CountSub(data_lower, sp \o word)
                    + CountSub(data_lower, word \o sp)])
     + Cardinality({i \in 1..Len(common_english_words) :
                      StartsWith(data_lower, common_english_words[i] \o sp)})

\* _detect_language_hint
detect_language_hint(data) ==
  LET data_lower == Lower(data)
      english_count == EnglishCount(data_lower)
  IN IF english_count >= 2 THEN "likely_english" ELSE "unknown"

\* len(data.encode('utf-8'))
Utf8Size(data) == SumSeq([i \in 1..Len(data) |-> Utf8Len(data[i])])

\* capture_metadata on a str; now is what datetime.utcnow() reads
capture_metadata(data, source_name, now) ==
  [source_name |-> source_name,
   extraction_timestamp |-> now,
   data_size_bytes |-> Utf8Size(data),
   line_count |-> CountChar(data, "\n") + 1,
   has_special_chars |->
     \E i \in 1..Len(data) :
       ~(data[i] \in AsciiLetters \cup Digits \/ IsSpace(data[i])),
   language_hint |-> detect_language_hint(data)]

\* source_name.rsplit('.', 1)[1].lower(), for a source_name that has a '.'
Extension(source_name) == Lower(Drop(source_name, LastIndexOf(source_name, ".")))

\* re.match(r'^#+\s+', data, re.MULTILINE): re.match tries position 0 only
MatchHeading(data) ==
  LET n == SpanLen(data, {"#"})
  IN n >= 1 /\ n < Len(data) /\ IsSpace(data[n + 1])

\* the type the extension gives, or unknown
ExtensionType(source_name, formats) ==
  IF Contains(source_name, ".") /\ InList(Extension(source_name), formats)
    THEN Extension(source_name)
    ELSE unknown

\* the content-based branch of detect_format
ContentFormat(data) ==
  IF StartsWith(Strip(data), <<"{">>) /\ EndsWith(Strip(data), <<"}">>)
    THEN [detected_type |-> json, confidence |-> 70]
  ELSE IF StartsWith(Strip(data), <<"<">>) /\ EndsWith(Strip(data), <<">">>)
    THEN [detected_type |-> xml, confidence |-> 70]
  ELSE IF MatchHeading(data)
    THEN [detected_type |-> md, confidence |-> 60]
  ELSE IF Contains(data, ",") /\ Contains(data, "\n")
    THEN [detected_type |-> csv, confidence |-> 50]
  ELSE [detected_type |-> txt, confidence |-> 50]

\* a bug: the content rules are consulted first, the extension only for a
\* text no content rule recognises
detect_format_content_first(data, source_name, formats) ==
  LET byext == ExtensionType(source_name, formats)
      found == IF byext # unknown /\ ContentFormat(data).detected_type = txt
                 THEN [detected_type |-> byext, confidence |-> 80]
                 ELSE ContentFormat(data)
  IN [detected_type |-> found.detected_type,
      confidence |-> found.confidence,
      supported |-> InList(found.detected_type, formats)]

\* detect_format on a str
detect_format(data, source_name, formats) ==
  LET byext == ExtensionType(source_name, formats)
      found == IF byext # unknown
                 THEN [detected_type |-> byext, confidence |-> 80]
                 ELSE ContentFormat(data)
  IN [detected_type |-> found.detected_type,
      confidence |-> found.confidence,
      supported |-> InList(found.detected_type, formats)]

\* extract on a str
extract(data, source_name, now, formats) ==
  [text |-> parse_text(data),
   metadata |-> capture_metadata(data, source_name, now),
   format |-> detect_format(data, source_name, formats)]

(***************************************************************************)
(* DeepReviewer                                                            *)
(***************************************************************************)
\* Program constants: the word count below which a text is a WARNING, the
\* number of word_details kept, the length of data_preview.
WarningBelow == 5

MaxWordDetails == 100

PreviewLen == 100

\* d.get(k, default) on a dict d
Get(d, k, default) == IF k \in DOMAIN d THEN d[k] ELSE default

\* a bug: the checks are counted after 'summary' is added to the dict
ValidationSummaryCountingItself(validations) ==
  LET valid_count == Cardinality({k \in DOMAIN validations : validations[k].valid})
      total_checks == Cardinality(DOMAIN validations) + 1
  IN [total_checks |-> total_checks,
      passed |-> valid_count,
      score |-> IF total_checks > 0
                  THEN (valid_count * 100) \div total_checks
                  ELSE 0]

\* validations['summary'], from the four checks
ValidationSummary(validations) ==
  LET valid_count == Cardinality({k \in DOMAIN validations : validations[k].valid})
      total_checks == Cardinality(DOMAIN validations)
  IN [total_checks |-> total_checks,
      passed |-> valid_count,
      score |-> IF total_checks > 0
                  THEN (valid_count * 100) \div total_checks
                  ELSE 0]

\* validate_points
validate_points(text_data, metadata, rules) ==
  LET word_count == Get(text_data, "word_count", 0)
      char_count == Get(text_data, "char_count", 0)
      sentence_count == Get(text_data, "sentence_count", 0)
      data_size == Get(metadata, "data_size_bytes", 0)
      validations ==
        [word_count |->
           [value |-> word_count,
            valid |-> word_count >= rules.min_words,
            rule |-> <<"minimum", rules.min_words, "words">>],
         char_count |->
           [value |-> char_count,
            valid |-> char_count >= rules.min_chars,
            rule |-> <<"minimum", rules.min_chars, "characters">>],
         sentence_structure |->
           [value |-> sentence_count,
            valid |-> sentence_count > 0,
            rule |-> <<"at least one sentence">>],
         data_size |->
           [value |-> data_size,
            valid |-> data_size > 0,
            rule |-> <<"non-empty data">>]]
  IN [word_count |-> validations.word_count,
      char_count |-> validations.char_count,
      sentence_structure |-> validations.sentence_structure,
      data_size |-> validations.data_size,
      summary |-> ValidationSummary(validations)]

\* str.isalpha / str.isdigit / str.isalnum of a word
IsAlpha(w) == w # <<>> /\ \A i \in 1..Len(w) : IsAlphaChar(w[i])

IsDigit(w) == w # <<>> /\ \A i \in 1..Len(w) : IsDigitChar(w[i])

IsAlnum(w) == w # <<>> /\ \A i \in 1..Len(w) : IsAlphaChar(w[i]) \/ IsDigitChar(w[i])

\* a bug: every word keeps its details
WordDetailsUncut(word_analysis) == word_analysis

\* word_analysis[:100]
WordDetails(word_analysis) ==
  IF Len(word_analysis) > MaxWordDetails
    THEN Take(word_analysis, MaxWordDetails)
    ELSE word_analysis

\* a bug: the numeric words are not taken off
MixedWordsKeepingNumeric(total_words, alpha_words, numeric_words) ==
  total_words - alpha_words

\* 'alphanumeric_words': total_words - alpha_words - numeric_words
MixedWords(total_words, alpha_words, numeric_words) ==
  total_words - alpha_words - numeric_words

\* the greatest common divisor of two naturals, a > 0 or b > 0
RECURSIVE Gcd(_, _)
Gcd(a, b) == IF b = 0 THEN a ELSE Gcd(b, a % b)

\* total / count, the true division of two integers, count > 0
Quotient(total, count) ==
  [num |-> total \div Gcd(total, count), den |-> count \div Gcd(total, count)]

\* verify_words
verify_words(text_data) ==
  LET words == Get(text_data, "words", <<>>)
      word_analysis ==
        [i \in 1..Len(words) |->
           [position |-> i - 1,
            word |-> words[i],
            length |-> Len(words[i]),
            is_alphanumeric |-> IsAlnum(words[i]),
            is_numeric |-> IsDigit(words[i]),
            is_alpha |-> IsAlpha(words[i])]]
      total_words == Len(words)
      alpha_words == Cardinality({i \in 1..Len(words) : IsAlpha(words[i])})
      numeric_words == Cardinality({i \in 1..Len(words) : IsDigit(words[i])})
  IN [total_words |-> total_words,
      alpha_words |-> alpha_words,
      numeric_words |-> numeric_words,
      alphanumeric_words |-> MixedWords(total_words, alpha_words, numeric_words),
      average_word_length |->
        IF total_words > 0
          THEN Quotient(SumSeq([i \in 1..Len(words) |-> Len(words[i])]), total_words)
          ELSE 0,
      unique_words |-> Cardinality({words[i] : i \in 1..Len(words)}),
      word_details |-> WordDetails(word_analysis)]

\* a bug: a text of exactly WarningBelow words is still a WARNING
determine_overall_status_off_by_one(text_data, metadata) ==
  LET word_count == Get(text_data, "word_count", 0)
      char_count == Get(text_data, "char_count", 0)
  IN IF word_count = 0 \/ char_count = 0 THEN "INVALID"
     ELSE IF word_count <= WarningBelow THEN "WARNING"
     ELSE "VALID"

\* _determine_overall_status
determine_overall_status(text_data, metadata) ==
  LET word_count == Get(text_data, "word_count", 0)
      char_count == Get(text_data, "char_count", 0)
  IN IF word_count = 0 \/ char_count = 0 THEN "INVALID"
     ELSE IF word_count < WarningBelow THEN "WARNING"
     ELSE "VALID"

\* The bytes of one character in UTF-8, each byte by its name.
Utf8Bytes(c) == IF c \in NonAsciiLetters THEN <<"0xC3", "0xA9">> ELSE <<c>>

\* text.encode('utf-8')
Utf8Encode(text) ==
  LET slots == [k \in 1..(2 * Len(text)) |-> [char |-> (k + 1) \div 2, byte |-> 2 - (k % 2)]]
      Used(slot) == slot.byte <= Len(Utf8Bytes(text[slot.char]))
      used == SelectSeq(slots, Used)
  IN [k \in 1..Len(used) |-> Utf8Bytes(text[used[k].char])[used[k].byte]]

\* the number of hex characters of a digest of each algorithm of hashlib
HexDigestLen == [md5 |-> 32, sha1 |-> 40, sha256 |-> 64, sha512 |-> 128]

\* hashlib.<algorithm>(bytes).hexdigest(): the digest is kept as a term, the
\* algorithm and the bytes it was computed from, with the length of its hex
\* string; two digests are equal when algorithm and bytes are
hexdigest(algorithm, bytes) ==
  [algorithm |-> algorithm, of |-> bytes, hex_length |-> HexDigestLen[algorithm]]

\* a bug: the source name is hashed with the raw text
generate_hash_with_source(extracted_content) ==
  LET raw_text == Get(Get(extracted_content, "text", <<>>), "raw", <<>>)
                    \o Get(Get(extracted_content, "metadata", <<>>), "source_name", <<>>)
      raw_bytes == Utf8Encode(raw_text)
      cleaned_text == Get(Get(extracted_content, "text", <<>>), "cleaned", <<>>)
  IN [md5 |-> hexdigest("md5", raw_bytes),
      sha1 |-> hexdigest("sha1", raw_bytes),
      sha256 |-> hexdigest("sha256", raw_bytes),
      sha512 |-> hexdigest("sha512", raw_bytes),
      cleaned_sha256 |-> hexdigest("sha256", Utf8Encode(cleaned_text))]

\* generate_hash
generate_hash(extracted_content) ==
  LET raw_text == Get(Get(extracted_content, "text", <<>>), "raw", <<>>)
      raw_bytes == Utf8Encode(raw_text)
      cleaned_text == Get(Get(extracted_content, "text", <<>>), "cleaned", <<>>)
  IN [md5 |-> hexdigest("md5", raw_bytes),
      sha1 |-> hexdigest("sha1", raw_bytes),
      sha256 |-> hexdigest("sha256", raw_bytes),
      sha512 |-> hexdigest("sha512", raw_bytes),
      cleaned_sha256 |-> hexdigest("sha256", Utf8Encode(cleaned_text))]

\* review
review(extracted_content, rules) ==
  LET text_data == Get(extracted_content, "text", <<>>)
      metadata == Get(extracted_content, "metadata", <<>>)
  IN [point_by_point_validation |-> validate_points(text_data, metadata, rules),
      word_by_word_verification |-> verify_words(text_data),
      hash |-> generate_hash(extracted_content),
      overall_status |-> determine_overall_status(text_data, metadata)]

(***************************************************************************)
(* UnstructuredDataPipeline                                                *)
(***************************************************************************)
\* a Python value: a str with its characters, or None
Str(s) == [t |-> "str", s |-> s]

None == [t |-> "NoneType", s |-> <<>>]

\* a bug: a text of exactly PreviewLen characters is cut too
DataPreviewAtLimit(data) ==
  IF Len(data) >= PreviewLen
    THEN Take(data, PreviewLen) \o <<".", ".", ".">>
    ELSE data

\* data[:100] + '...' if len(data) > 100 else data
DataPreview(data) ==
  IF Len(data) > PreviewLen
    THEN Take(data, PreviewLen) \o <<".", ".", ".">>
    ELSE data

\* process on a str data and a str source_name
process(data, source_name, now, formats, rules) ==
  LET extracted == extract(data, source_name, now, formats)
      reviewed == review(extracted, rules)
  IN [input |->
        [source_name |-> source_name,
         data_preview |-> DataPreview(data)],
      extraction |-> extracted,
      review |-> reviewed,
      pipeline_status |-> "completed"]

\* The operations a call of process runs, in order, when nothing raises.
FullTrace ==
  <<"extract", "parse_text", "capture_metadata", "_detect_language_hint",
    "detect_format", "review", "validate_points", "verify_words",
    "generate_hash", "_determine_overall_status">>

\* A call of process on Python values: what it returns or raises, and the
\* operations it ran.  re.sub in parse_text raises TypeError on a data that
\* is no str; '.' in source_name in detect_format raises TypeError on a
\* source_name that is no str.  process itself checks nothing.
ProcessCall(data, source_name, now, formats, rules) ==
  IF data.t # "str"
    THEN [outcome |-> "raise", exc |-> "TypeError", ret |-> <<>>,
          trace |-> Take(FullTrace, 2)]
  ELSE IF source_name.t # "str"
    THEN [outcome |-> "raise", exc |-> "TypeError", ret |-> <<>>,
          trace |-> Take(FullTrace, 5)]
  ELSE [outcome |-> "return", exc |-> "",
        ret |-> process(data.s, source_name.s, now, formats, rules),
        trace |-> FullTrace]

\* A batch item: a tuple of Python values, or a bare value (one element).
Tuple(elems) == [is_tuple |-> TRUE, elems |-> elems]

Bare(v) == [is_tuple |-> FALSE, elems |-> <<v>>]

\* a bug: the newest report is put first
PrependResult(results, result) == <<result>> \o results

\* results.append(result)
AppendResult(results, result) == Append(results, result)

\* The loop of process_batch from item i on, results holding the reports of
\* the items before i; calls counts the calls of process made.  "data, source_name = item" raises ValueError on a
\* tuple that has not two elements; an exception leaves the loop and the
\* method, and results is lost.
RECURSIVE BatchLoop(_, _, _, _, _, _)
BatchLoop(data_items, nows, formats, rules, i, results) ==
  IF i > Len(data_items)
    THEN [outcome |-> "return", exc |-> "", ret |-> results, calls |-> i - 1]
  ELSE
    LET item == data_items[i]
    IN IF item.is_tuple /\ Len(item.elems) # 2
         THEN [outcome |-> "raise", exc |-> "ValueError", ret |-> <<>>,
               calls |-> i - 1]
       ELSE
         LET data == item.elems[1]
             source_name == IF item.is_tuple THEN item.elems[2] ELSE Str(unknown)
             result == ProcessCall(data, source_name, nows[i], formats, rules)
         IN IF result.outcome = "raise"
              THEN [outcome |-> "raise", exc |-> result.exc, ret |-> <<>>,
                    calls |-> i]
              ELSE BatchLoop(data_items, nows, formats, rules, i + 1,
                             AppendResult(results, result.ret))

\* process_batch
process_batch(data_items, nows, formats, rules) ==
  BatchLoop(data_items, nows, formats, rules, 1, <<>>)

(***************************************************************************)
(* The inputs of the calls.                                                *)
(***************************************************************************)
Alphabet == {"a", "1", "é", " ", "\n", ".", ",", "#", "{", "}", "<", ">"}

\* every text of at most n characters of Alphabet
BoundedTexts(n) == UNION {[1..k -> Alphabet] : k \in 0..n}

\* longer texts: those of the tests and of the scenarios of the spec
SampleTexts ==
  { <<"H","e","l","l","o"," ","w","o","r","l","d","."," ",
      "T","h","i","s"," ","i","s"," ","a"," ","t","e","s","t",".">>,
    <<"{","a",",","\n","1","}">>,
    <<" ","<","a",",","\n",">"," ">>,
    <<"a",",","b","\n","#"," ","h">>,
    <<"x","\n","#","#","\t","T">>,
    <<"#","#"," ","T","\n","a",",","b">>,
    <<"é","_","1"," ","B","2"," ","4","2","!">>,
    <<"3",".","1","4">>,
    <<" ","a",".","\n","\n","b"," "," ">>,
    <<"a","\r","\n","b",".","\r","\n">>,
    <<"#","\r","x">>,
    <<"\r","{","a","}","\f">>,
    <<"a"," ","a"," ","a"," ","a"," ","a">>,
    <<"T","h","e"," ","c","a","t"," ","i","s"," ","o","n"," ","a"," ","m","a","t">> }

\* texts around the length of the preview: n characters, "x" up to the
\* preview length and "y" after it
LongText(n) == [i \in 1..n |-> IF i <= PreviewLen THEN "x" ELSE "y"]

\* texts of n one-character words, letters and digits in turn
ManyWords(n) ==
  [i \in 1..(2 * n - 1) |->
     IF i % 2 = 0 THEN " "
     ELSE IF i % 6 = 1 THEN "a" ELSE IF i % 6 = 3 THEN "1" ELSE "b"]

LongTexts ==
  {LongText(n) : n \in {PreviewLen - 1, PreviewLen, PreviewLen + 1, 2 * PreviewLen}}
    \cup {ManyWords(n) : n \in {MaxWordDetails - 1, MaxWordDetails,
                                 MaxWordDetails + 1, MaxWordDetails + 20}}

Texts == BoundedTexts(MaxLen) \cup SampleTexts \cup LongTexts

SampleNames ==
  { unknown,
    <<"t","e","s","t",".","t","x","t">>,
    <<"d","a","t","a",".","J","S","O","N">>,
    <<"d","o","c",".","m","d">>,
    <<"a",".","b",".","c","s","v">>,
    <<"p",".","H","t","m","l">>,
    <<".","x","m","l">>,
    <<"a",".">>,
    <<"a",".","e","x","e">>,
    <<"t","x","t">>,
    <<"a",".","t","x","t",".","b","a","k">> }

\* the source names given to process
ProcessNames == {unknown, <<"d","o","c",".","m","d">>, <<"a",".","e","x","e">>}

\* what datetime.utcnow() may read
Times == {1, 2}

\* the values of a synthetic count
Counts == 0..MaxCount

\* the dicts over the keys ks with counts as values, keys possibly missing
Dicts(ks) == UNION {[sub -> Counts] : sub \in SUBSET ks}

\* the words of a synthetic word list: letters, digits, both, neither, none
SampleWords ==
  { <<"a">>, <<"A">>, <<"é","b">>, <<"1">>, <<"4","2">>, <<"a","1">>,
    <<"a","_">>, <<>> }

\* the synthetic text_data given to verify_words: a list of at most
\* MaxWords words, or no 'words' key at all
WordLists == UNION {[1..k -> SampleWords] : k \in 0..MaxWords}

WordDicts == {[words |-> ws] : ws \in WordLists} \cup {[char_count |-> 0]}

\* the texts of a synthetic extraction record
RecordTexts == {<<>>, <<"a", " ", "b">>, <<"é", "\r", "\n">>}

\* the synthetic 'text' dicts: raw and cleaned text and the counts, each
\* key possibly missing
TextDicts ==
  UNION {[sub -> RecordTexts] : sub \in SUBSET {"raw", "cleaned"}}
    \cup {[raw |-> <<"a", " ", "b">>, cleaned |-> <<"a", " ", "b">>,
           words |-> << <<"a">>, <<"b">> >>,
           word_count |-> 2, sentence_count |-> 1, char_count |-> 3],
          [words |-> << <<"a">>, <<"4", "2">>, <<"a">> >>, word_count |-> 3],
          [word_count |-> MaxCount, char_count |-> MaxCount]}

\* the synthetic 'metadata' dicts
MetadataDicts ==
  {[k \in {} |-> 0], [source_name |-> <<"x">>], [data_size_bytes |-> 3],
   [source_name |-> <<"y">>, data_size_bytes |-> 0]}

\* the synthetic extraction records given to review and generate_hash:
\* 'text' and 'metadata', each possibly missing
Records ==
  {[k \in {} |-> 0]}
    \cup {[text |-> t] : t \in TextDicts}
    \cup {[metadata |-> m] : m \in MetadataDicts}
    \cup {[text |-> t, metadata |-> m] : t \in TextDicts, m \in MetadataDicts}

\* the items of a batch
SampleItems ==
  { Tuple(<<Str(<<"a", " ", "b">>), Str(<<"d","o","c",".","m","d">>)>>),
    Tuple(<<Str(<<"#", " ", "T">>), Str(unknown)>>),
    Tuple(<<Str(<<>>), Str(<<"a",".","t","x","t">>)>>),
    Bare(Str(<<"{", "}">>)),
    Bare(Str(<<"a", ".", "a">>)),
    Bare(None),
    Tuple(<<None, Str(unknown)>>),
    Tuple(<<Str(<<"a">>), None>>),
    Tuple(<<Str(<<"a">>)>>),
    Tuple(<<Str(<<"a">>), Str(unknown), Str(<<"b">>)>>) }

Batches == UNION {[1..k -> SampleItems] : k \in 0..MaxBatch}

(***************************************************************************)
(* The state machine: a caller makes one call at a time on one pipeline.   *)
(***************************************************************************)
Init ==
  /\ supported_formats = SupportedFormatsInit
  /\ validation_rules = ValidationRulesInit
  /\ pc = "idle"
  /\ op = "none"
  /\ args = <<>>
  /\ outcome = "none"
  /\ ret = <<>>
  /\ exc = ""
  /\ trace = <<>>

\* the call o(a) ends as r says
Call(o, a, r) ==
  /\ pc' = "done"
  /\ op' = o
  /\ args' = a
  /\ outcome' = r.outcome
  /\ ret' = r.ret
  /\ exc' = r.exc
  /\ trace' = r.trace
  /\ UNCHANGED <<supported_formats, validation_rules>>

Returned(o, v) == [outcome |-> "return", exc |-> "", ret |-> v, trace |-> <<o>>]

ParseText ==
  /\ pc = "idle"
  /\ \E data \in Texts :
       Call("parse_text", [data |-> data], Returned("parse_text", parse_text(data)))

DetectFormat ==
  /\ pc = "idle"
  /\ \E data \in Texts, source_name \in SampleNames :
       Call("detect_format", [data |-> data, source_name |-> source_name],
            Returned("detect_format",
                     detect_format(data, source_name, supported_formats)))

ValidatePoints ==
  /\ pc = "idle"
  /\ \E text_data \in Dicts({"word_count", "char_count", "sentence_count"}),
        metadata \in Dicts({"data_size_bytes"}) :
       Call("validate_points", [text_data |-> text_data, metadata |-> metadata],
            Returned("validate_points",
                     validate_points(text_data, metadata, validation_rules)))

VerifyWords ==
  /\ pc = "idle"
  /\ \E text_data \in WordDicts :
       Call("verify_words", [text_data |-> text_data],
            Returned("verify_words", verify_words(text_data)))

GenerateHash ==
  /\ pc = "idle"
  /\ \E extracted_content \in Records :
       Call("generate_hash", [extracted_content |-> extracted_content],
            Returned("generate_hash", generate_hash(extracted_content)))

Review ==
  /\ pc = "idle"
  /\ \E extracted_content \in Records :
       Call("review", [extracted_content |-> extracted_content],
            Returned("review", review(extracted_content, validation_rules)))

DetermineOverallStatus ==
  /\ pc = "idle"
  /\ \E text_data \in Dicts({"word_count", "char_count"}),
        metadata \in Dicts({"data_size_bytes"}) :
       Call("_determine_overall_status",
            [text_data |-> text_data, metadata |-> metadata],
            Returned("_determine_overall_status",
                     determine_overall_status(text_data, metadata)))

Process ==
  /\ pc = "idle"
  /\ \E data \in {Str(s) : s \in Texts} \cup {None},
        source_name \in {Str(n) : n \in ProcessNames} \cup {None},
        now \in Times :
       Call("process", [data |-> data, source_name |-> source_name, now |-> now],
            ProcessCall(data, source_name, now, supported_formats, validation_rules))

ProcessBatch ==
  /\ pc = "idle"
  /\ \E data_items \in Batches :
       \E nows \in [1..Len(data_items) -> Times] :
         LET r == process_batch(data_items, nows, supported_formats, validation_rules)
         IN Call("process_batch", [data_items |-> data_items, nows |-> nows],
                 [outcome |-> r.outcome, exc |-> r.exc, ret |-> r.ret,
                  trace |-> [j \in 1..r.calls |-> "process"]])

\* the caller takes the result; the pipeline is ready for the next call
Return ==
  /\ pc = "done"
  /\ pc' = "idle"
  /\ op' = "none"
  /\ args' = <<>>
  /\ outcome' = "none"
  /\ ret' = <<>>
  /\ exc' = ""
  /\ trace' = <<>>
  /\ UNCHANGED <<supported_formats, validation_rules>>

Next ==
  \/ ParseText
  \/ DetectFormat
  \/ ValidatePoints
  \/ VerifyWords
  \/ GenerateHash
  \/ Review
  \/ DetermineOverallStatus
  \/ Process
  \/ ProcessBatch
  \/ Return

Spec == Init /\ [][Next]_vars

(***************************************************************************)
(* What the claims speak of.                                               *)
(***************************************************************************)
Done(o) == pc = "done" /\ op = o

\* the six format tags of the spec
FormatTags == {txt, json, csv, xml, html, md}

\* the calls of detect_format the state shows, alone or inside process:
\* its two arguments and its result
DetectObs ==
  IF Done("detect_format")
    THEN {[data |-> args.data, source_name |-> args.source_name, format |-> ret]}
  ELSE IF Done("process") /\ outcome = "return"
    THEN {[data |-> args.data.s, source_name |-> args.source_name.s,
           format |-> ret.extraction.format]}
  ELSE {}

\* source_name has a '.', and what follows its last '.' is, lower-cased, tag
HasExtension(source_name, tag) ==
  \E i \in 1..Len(source_name) :
    /\ source_name[i] = "."
    /\ \A j \in (i + 1)..Len(source_name) : source_name[j] # "."
    /\ Lower(SubSeq(source_name, i + 1, Len(source_name))) = tag

\* the extension phase resolves
ExtensionResolves(source_name) == \E tag \in FormatTags : HasExtension(source_name, tag)

\* the content rules as the spec words them
JsonRule(data) ==
  Strip(data) # <<>> /\ Head(Strip(data)) = "{" /\ Strip(data)[Len(Strip(data))] = "}"

XmlRule(data) ==
  Strip(data) # <<>> /\ Head(Strip(data)) = "<" /\ Strip(data)[Len(Strip(data))] = ">"

\* some line of data, the first or a later one, starts with one or more '#'
\* followed by whitespace
HeadingOnSomeLine(data) ==
  \E i \in 1..Len(data) :
    /\ i = 1 \/ data[i - 1] = "\n"
    /\ \E k \in i..(Len(data) - 1) :
         /\ \A j \in i..k : data[j] = "#"
         /\ data[k + 1] \in Whitespace

CsvRule(data) == (\E i \in 1..Len(data) : data[i] = ",") /\ (\E i \in 1..Len(data) : data[i] = "\n")

\* the first content rule of the spec that data matches, with its confidence
FirstSpecRule(data) ==
  IF JsonRule(data) THEN <<json, 70>>
  ELSE IF XmlRule(data) THEN <<xml, 70>>
  ELSE IF HeadingOnSomeLine(data) THEN <<md, 60>>
  ELSE IF CsvRule(data) THEN <<csv, 50>>
  ELSE <<txt, 50>>

(***************************************************************************)
(* C1: the status that _determine_overall_status returns is INVALID iff    *)
(* word_count = 0 or char_count = 0, WARNING iff char_count > 0 and        *)
(* 1 <= word_count < 5, VALID iff char_count > 0 and word_count >= 5, for  *)
(* every non-negative word_count and char_count and whatever the metadata; *)
(* exactly one of the three holds.  The same holds of the overall_status   *)
(* of a Report against the counts of its extraction record.                *)
(***************************************************************************)
StatusAgrees(status, word_count, char_count) ==
  /\ status \in {"INVALID", "WARNING", "VALID"}
  /\ status = "INVALID" <=> (word_count = 0 \/ char_count = 0)
  /\ status = "WARNING" <=> (char_count > 0 /\ 1 <= word_count /\ word_count < 5)
  /\ status = "VALID" <=> (char_count > 0 /\ word_count >= 5)

C1_StatusDecision ==
  /\ (Done("_determine_overall_status")
        /\ {"word_count", "char_count"} \subseteq DOMAIN args.text_data)
       => StatusAgrees(ret, args.text_data.word_count, args.text_data.char_count)
  /\ (Done("process") /\ outcome = "return")
       => StatusAgrees(ret.review.overall_status,
                       ret.extraction.text.word_count,
                       ret.extraction.text.char_count)

\* the boundary: five words, some characters, VALID
C1_Witness ==
  /\ Done("_determine_overall_status")
  /\ {"word_count", "char_count"} \subseteq DOMAIN args.text_data
  /\ args.text_data.word_count = 5
  /\ args.text_data.char_count = 1
  /\ ret = "VALID"

(***************************************************************************)
(* C2: when source_name has a '.' and what follows its last '.' is,        *)
(* lower-cased, one of txt, json, csv, xml, html, md, detect_format        *)
(* returns that tag with confidence 0.8 and supported = true, whatever the *)
(* content.                                                                *)
(***************************************************************************)
C2_ExtensionFirst ==
  \A o \in DetectObs :
    \A tag \in FormatTags :
      HasExtension(o.source_name, tag)
        => /\ o.format.detected_type = tag
           /\ o.format.confidence = 80
           /\ o.format.supported = TRUE

\* a text the json rule matches, named doc.md, is md by its extension
C2_Witness ==
  /\ Done("detect_format")
  /\ args.data = <<"{", "}">>
  /\ args.source_name = <<"d","o","c",".","m","d">>
  /\ ret.detected_type = md
  /\ ret.confidence = 80

(***************************************************************************)
(* C3: when the extension phase does not resolve and the trimmed text is   *)
(* neither brace-delimited nor angle-bracket-delimited, detect_format      *)
(* returns md with confidence 0.6 whenever some line of the text, the      *)
(* first or a later one, starts with one or more '#' followed by           *)
(* whitespace.  (The code matches the heading at the start of the text     *)
(* only.)                                                                  *)
(***************************************************************************)
C3_HeadingOnAnyLine ==
  \A o \in DetectObs :
    (/\ ~ExtensionResolves(o.source_name)
     /\ ~JsonRule(o.data)
     /\ ~XmlRule(o.data)
     /\ HeadingOnSomeLine(o.data))
      => o.format.detected_type = md /\ o.format.confidence = 60

(***************************************************************************)
(* C4: when the extension phase does not resolve, detect_format returns    *)
(* the first content rule that matches, in the order json (0.7), xml       *)
(* (0.7), md (0.6), csv (0.5), else txt (0.5), and the result is one of    *)
(* json, xml, md, csv, txt with supported = true.  (With the heading rule  *)
(* of the spec, a text whose heading is on a later line matches md before  *)
(* csv and txt, and the code returns csv or txt.)                          *)
(***************************************************************************)
C4_FirstMatchingRule ==
  \A o \in DetectObs :
    ~ExtensionResolves(o.source_name)
      => /\ o.format.detected_type = FirstSpecRule(o.data)[1]
         /\ o.format.confidence = FirstSpecRule(o.data)[2]
         /\ o.format.detected_type \in {json, xml, md, csv, txt}
         /\ o.format.supported = TRUE

(***************************************************************************)
(* C5: validate_points evaluates each of its four checks whatever the      *)
(* others give: word_count >= 1, char_count >= 1, sentence_count > 0,      *)
(* data_size_bytes > 0.  total_checks = 4, passed is the number of checks  *)
(* that are valid, score = passed / 4, so 0 <= score <= 1, score = 1 iff   *)
(* all four pass and score = 0 iff none passes.                            *)
(***************************************************************************)
\* the number of TRUE among four flags
CountTrue(flags) == Cardinality({i \in 1..Len(flags) : flags[i]})

C5_ValidationScore ==
  Done("validate_points") =>
    LET flags == <<ret.word_count.valid, ret.char_count.valid,
                   ret.sentence_structure.valid, ret.data_size.valid>>
    IN /\ ret.word_count.valid <=> Get(args.text_data, "word_count", 0) >= 1
       /\ ret.char_count.valid <=> Get(args.text_data, "char_count", 0) >= 1
       /\ ret.sentence_structure.valid <=> Get(args.text_data, "sentence_count", 0) > 0
       /\ ret.data_size.valid <=> Get(args.metadata, "data_size_bytes", 0) > 0
       /\ ret.summary.total_checks = 4
       /\ ret.summary.passed = CountTrue(flags)
       /\ ret.summary.score * 4 = ret.summary.passed * 100
       /\ ret.summary.score \in 0..100
       /\ ret.summary.score = 100 <=> (\A i \in 1..4 : flags[i])
       /\ ret.summary.score = 0 <=> (\A i \in 1..4 : ~flags[i])

\* the first check fails and a later one still passes: score 0.5
C5_Witness ==
  /\ Done("validate_points")
  /\ ~ret.word_count.valid
  /\ ~ret.char_count.valid
  /\ ret.sentence_structure.valid
  /\ ret.data_size.valid
  /\ ret.summary.passed = 2
  /\ ret.summary.score = 50

(***************************************************************************)
(* C6: in the text record of every text T, word_count = len(words),        *)
(* sentence_count = len(sentences) and char_count is the length of the raw *)
(* text T, not of the cleaned text.                                        *)
(***************************************************************************)
\* the text records the state shows, each with the text it was parsed from
TextObs ==
  IF Done("parse_text") THEN {[data |-> args.data, text |-> ret]}
  ELSE IF Done("process") /\ outcome = "return"
    THEN {[data |-> args.data.s, text |-> ret.extraction.text]}
  ELSE {}

C6_CountsAreLengths ==
  \A o \in TextObs :
    /\ o.text.word_count = Len(o.text.words)
    /\ o.text.sentence_count = Len(o.text.sentences)
    /\ o.text.char_count = Len(o.data)
    /\ o.text.raw = o.data

\* a text that cleaning shortens, with two words in two sentences
C6_Witness ==
  /\ Done("parse_text")
  /\ Len(ret.cleaned) < Len(args.data)
  /\ ret.word_count = 2
  /\ ret.sentence_count = 2
  /\ ret.char_count = Len(args.data)

(***************************************************************************)
(* C7: a process_batch that returns gives a list as long as its input, in  *)
(* input order: its i-th element is the Report that process gives for the  *)
(* i-th item on its own (up to the timestamp), a bare item being processed *)
(* with source_name 'unknown'; the pipeline's rule tables are the ones it  *)
(* was built with, whatever calls came before.                             *)
(***************************************************************************)
\* a Report without its timestamp
WithoutTimestamp(report) ==
  [report EXCEPT !.extraction.metadata.extraction_timestamp = 0]

ItemData(item) == item.elems[1]

ItemName(item) == IF item.is_tuple THEN item.elems[2] ELSE Str(unknown)

C7_BatchIsMapOfProcess ==
  /\ supported_formats = SupportedFormatsInit
  /\ validation_rules = ValidationRulesInit
  /\ (Done("process_batch") /\ outcome = "return") =>
       /\ Len(ret) = Len(args.data_items)
       /\ \A i \in 1..Len(ret) :
            /\ ret[i].input.source_name = ItemName(args.data_items[i]).s
            /\ ret[i].extraction.text.raw = ItemData(args.data_items[i]).s
            /\ ret[i].extraction.metadata.extraction_timestamp = args.nows[i]
            /\ \A t \in Times :
                 WithoutTimestamp(ret[i]) =
                   WithoutTimestamp(process(ItemData(args.data_items[i]).s,
                                            ItemName(args.data_items[i]).s, t,
                                            SupportedFormatsInit,
                                            ValidationRulesInit))

\* a batch of a pair and a different bare item, processed at different times
C7_Witness ==
  /\ Done("process_batch")
  /\ outcome = "return"
  /\ Len(ret) = 2
  /\ args.data_items[1].is_tuple
  /\ ~args.data_items[2].is_tuple
  /\ ret[2].input.source_name = unknown
  /\ ret[1].input.source_name # unknown
  /\ args.nows[1] # args.nows[2]

(***************************************************************************)
(* C8: process_batch does not stop at a bad item: when the processing of   *)
(* one item of a batch fails and the batch has other, good items, these    *)
(* are still processed and their results returned.  (The code lets the exception of the bad item end the whole   *)
(* call.)                                                                  *)
(***************************************************************************)
\* an item process can handle: a bare str, or a pair of strs
ItemOk(item) ==
  /\ item.is_tuple => Len(item.elems) = 2
  /\ \A j \in 1..Len(item.elems) : item.elems[j].t = "str"

GoodItems(data_items) == {i \in 1..Len(data_items) : ItemOk(data_items[i])}

\* the reports of the good items are returned, in their order
C8_BatchSurvivesBadItem ==
  (/\ Done("process_batch")
   /\ GoodItems(args.data_items) # {}
   /\ GoodItems(args.data_items) # 1..Len(args.data_items)) =>
    /\ outcome = "return"
    /\ Len(ret) = Cardinality(GoodItems(args.data_items))

(***************************************************************************)
(* C9: process given a data that is no text (and a str source_name) raises *)
(* InvalidInput, and                                                       *)
(* raises it before any operation of the Extractor runs.  (The code checks *)
(* nothing: re.sub raises TypeError inside parse_text.)                    *)
(***************************************************************************)
C9_InvalidInputBeforeExtraction ==
  (Done("process") /\ args.data.t # "str" /\ args.source_name.t = "str") =>
    /\ outcome = "raise"
    /\ exc = "InvalidInput"
    /\ trace = <<>>

(***************************************************************************)
(* C10: process on a text string (and a str source_name) returns a Report  *)
(* with pipeline_status 'completed', whatever the text; for the empty      *)
(* string word_count, sentence_count, char_count and average_word_length   *)
(* are 0 and overall_status is INVALID.                                    *)
(***************************************************************************)
C10_EveryTextCompletes ==
  (Done("process") /\ args.data.t = "str" /\ args.source_name.t = "str") =>
    /\ outcome = "return"
    /\ exc = ""
    /\ ret.pipeline_status = "completed"
    /\ args.data.s = <<>> =>
         /\ ret.extraction.text.word_count = 0
         /\ ret.extraction.text.sentence_count = 0
         /\ ret.extraction.text.char_count = 0
         /\ ret.review.word_by_word_verification.total_words = 0
         /\ ret.review.word_by_word_verification.average_word_length = 0
         /\ ret.review.overall_status = "INVALID"

\* the empty string, processed to the end
C10_Witness ==
  /\ Done("process")
  /\ args.data = Str(<<>>)
  /\ outcome = "return"
  /\ ret.pipeline_status = "completed"
  /\ ret.review.overall_status = "INVALID"

(***************************************************************************)
(* C11: the data_preview of a Report is the raw text when the raw text has *)
(* at most 100 characters, and otherwise its first 100 characters followed *)
(* by '...' (103 characters): '...' is appended iff the raw text has more  *)
(* than 100 characters.                                                    *)
(***************************************************************************)
C11_DataPreview ==
  (Done("process") /\ outcome = "return") =>
    LET data == args.data.s
        preview == ret.input.data_preview
    IN /\ Len(data) <= 100 => preview = data
       /\ Len(data) > 100 =>
            /\ Len(preview) = 103
            /\ \A i \in 1..100 : preview[i] = data[i]
            /\ \A i \in 101..103 : preview[i] = "."

\* a text of 101 characters, cut to 100 and '...'
C11_Witness ==
  /\ Done("process")
  /\ outcome = "return"
  /\ Len(args.data.s) = 101
  /\ Len(ret.input.data_preview) = 103
  /\ ret.input.data_preview[100] = "x"
  /\ ret.input.data_preview[101] = "."

(***************************************************************************)
(* The calls of verify_words the state shows, alone, inside review or      *)
(* inside process: the word list it was given and its result.              *)
(***************************************************************************)
VerifyObs ==
  IF Done("verify_words")
    THEN {[words |-> Get(args.text_data, "words", <<>>), result |-> ret]}
  ELSE IF Done("review")
    THEN {[words |-> Get(Get(args.extracted_content, "text", <<>>), "words", <<>>),
           result |-> ret.word_by_word_verification]}
  ELSE IF Done("process") /\ outcome = "return"
    THEN {[words |-> ret.extraction.text.words,
           result |-> ret.review.word_by_word_verification]}
  ELSE {}

\* a token made of letters only, of digits only
AllLetters(w) == w # <<>> /\ \A i \in 1..Len(w) : w[i] \in AsciiLetters \cup NonAsciiLetters

AllDigits(w) == w # <<>> /\ \A i \in 1..Len(w) : w[i] \in Digits

\* how many tokens of words are in the class P
CountTokens(words, P(_)) == Cardinality({i \in 1..Len(words) : P(words[i])})

(***************************************************************************)
(* C12: word_details has min(total_words, 100) entries and is the prefix   *)
(* of the token sequence in its order: its i-th entry (from 0) has         *)
(* position i and describes words[i]; total_words, alpha_words,            *)
(* numeric_words and unique_words are computed over the whole sequence,    *)
(* also beyond 100 tokens.                                                 *)
(***************************************************************************)
C12_WordDetailsPrefix ==
  \A o \in VerifyObs :
    LET details == o.result.word_details
    IN /\ Len(details) = IF Len(o.words) < 100 THEN Len(o.words) ELSE 100
       /\ \A i \in 1..Len(details) :
            /\ details[i].position = i - 1
            /\ details[i].word = o.words[i]
            /\ details[i].length = Len(o.words[i])
       /\ o.result.total_words = Len(o.words)
       /\ o.result.alpha_words = CountTokens(o.words, AllLetters)
       /\ o.result.numeric_words = CountTokens(o.words, AllDigits)
       /\ o.result.unique_words = Cardinality({o.words[i] : i \in 1..Len(o.words)})

\* a text of 101 words: 100 entries, the statistics over all 101
C12_Witness ==
  /\ Done("process")
  /\ outcome = "return"
  /\ ret.review.word_by_word_verification.total_words = 101
  /\ Len(ret.review.word_by_word_verification.word_details) = 100
  /\ ret.review.word_by_word_verification.word_details[100].position = 99
  /\ ret.review.word_by_word_verification.numeric_words = 34

(***************************************************************************)
(* C13: every token is in exactly one of three classes, alpha (letters     *)
(* only), numeric (digits only), alphanumeric (neither), so                *)
(* alpha_words + numeric_words + alphanumeric_words = total_words with     *)
(* each count >= 0; unique_words is the number of distinct tokens, case    *)
(* kept, so 0 <= unique_words <= total_words; average_word_length is 0     *)
(* when there is no token, else the characters of all tokens over the      *)
(* number of tokens.                                                       *)
(***************************************************************************)
Neither(w) == ~AllLetters(w) /\ ~AllDigits(w)

\* the characters of all tokens of words: token and place in the token
LetterPlaces(words) ==
  UNION {{<<i, j>> : j \in 1..Len(words[i])} : i \in 1..Len(words)}

C13_WordClasses ==
  \A o \in VerifyObs :
    /\ \A i \in 1..Len(o.words) : ~(AllLetters(o.words[i]) /\ AllDigits(o.words[i]))
    /\ o.result.alpha_words = CountTokens(o.words, AllLetters)
    /\ o.result.numeric_words = CountTokens(o.words, AllDigits)
    /\ o.result.alphanumeric_words = CountTokens(o.words, Neither)
    /\ o.result.alpha_words >= 0
    /\ o.result.numeric_words >= 0
    /\ o.result.alphanumeric_words >= 0
    /\ o.result.alpha_words + o.result.numeric_words + o.result.alphanumeric_words
         = o.result.total_words
    /\ o.result.unique_words = Cardinality({o.words[i] : i \in 1..Len(o.words)})
    /\ 0 <= o.result.unique_words
    /\ o.result.unique_words <= o.result.total_words
    /\ o.words = <<>> => o.result.average_word_length = 0
    /\ o.words # <<>> =>
         o.result.average_word_length.num * Len(o.words)
           = o.result.average_word_length.den * Cardinality(LetterPlaces(o.words))

\* one token of each class, and two tokens that differ by case only
C13_Witness ==
  /\ Done("verify_words")
  /\ "words" \in DOMAIN args.text_data
  /\ args.text_data.words = << <<"a">>, <<"A">>, <<"4","2">> >>
  /\ ret.alpha_words = 2
  /\ ret.numeric_words = 1
  /\ ret.alphanumeric_words = 0
  /\ ret.unique_words = 3

(***************************************************************************)
(* C14: cleaning is idempotent: cleaning the cleaned text of any text      *)
(* gives the cleaned text again; the cleaned text has no whitespace at     *)
(* its start or end and no two whitespace characters side by side.         *)
(***************************************************************************)
C14_CleaningIdempotent ==
  \A o \in TextObs :
    LET c == o.text.cleaned
    IN /\ Clean(c) = c
       /\ c # <<>> => ~IsSpace(c[1]) /\ ~IsSpace(c[Len(c)])
       /\ \A i \in 1..(Len(c) - 1) : ~(IsSpace(c[i]) /\ IsSpace(c[i + 1]))

\* a text with whitespace at both ends and a run of two newlines inside
C14_Witness ==
  /\ Done("parse_text")
  /\ args.data = <<" ", "a", ".", "\n", "\n", "b", " ", " ">>
  /\ ret.cleaned = <<"a", ".", " ", "b">>

(***************************************************************************)
(* The digests a report must hold for a raw text, whatever else the        *)
(* extraction record says.                                                 *)
(***************************************************************************)
DigestsOf(raw) ==
  [md5 |-> hexdigest("md5", Utf8Encode(raw)),
   sha1 |-> hexdigest("sha1", Utf8Encode(raw)),
   sha256 |-> hexdigest("sha256", Utf8Encode(raw)),
   sha512 |-> hexdigest("sha512", Utf8Encode(raw)),
   cleaned_sha256 |-> hexdigest("sha256", Utf8Encode(Clean(raw)))]

\* the calls of generate_hash the state shows, alone, inside review or
\* inside process: the extraction record and the digests
HashObs ==
  IF Done("generate_hash") THEN {[record |-> args.extracted_content, hash |-> ret]}
  ELSE IF Done("review") THEN {[record |-> args.extracted_content, hash |-> ret.hash]}
  ELSE IF Done("process") /\ outcome = "return"
    THEN {[record |-> ret.extraction, hash |-> ret.review.hash]}
  ELSE {}

\* the text under key of an extraction record, empty when it has none
TextOf(record, key) ==
  IF "text" \in DOMAIN record /\ key \in DOMAIN record.text
    THEN record.text[key]
    ELSE <<>>

(***************************************************************************)
(* C15: the digests are a function of the text alone: md5, sha1, sha256    *)
(* and sha512 are the digests of the UTF-8 bytes of the raw text of the    *)
(* extraction record and cleaned_sha256 that of its cleaned text, whatever *)
(* the source name, the timestamp and the detected format; in a report     *)
(* they are those of the text given to process; their hex strings are 32,  *)
(* 40, 64, 128 and 64 characters long.                                     *)
(***************************************************************************)
C15_HashOfTextOnly ==
  /\ \A o \in HashObs :
       /\ o.hash.md5 = hexdigest("md5", Utf8Encode(TextOf(o.record, "raw")))
       /\ o.hash.sha1 = hexdigest("sha1", Utf8Encode(TextOf(o.record, "raw")))
       /\ o.hash.sha256 = hexdigest("sha256", Utf8Encode(TextOf(o.record, "raw")))
       /\ o.hash.sha512 = hexdigest("sha512", Utf8Encode(TextOf(o.record, "raw")))
       /\ o.hash.cleaned_sha256
            = hexdigest("sha256", Utf8Encode(TextOf(o.record, "cleaned")))
       /\ o.hash.md5.hex_length = 32
       /\ o.hash.sha1.hex_length = 40
       /\ o.hash.sha256.hex_length = 64
       /\ o.hash.sha512.hex_length = 128
       /\ o.hash.cleaned_sha256.hex_length = 64
  /\ (Done("process") /\ outcome = "return") =>
       /\ ret.review.hash = DigestsOf(args.data.s)
       /\ Len(ret.review.hash.md5.of) = ret.extraction.metadata.data_size_bytes

\* a report for a named source whose text has a two-byte character and
\* is changed by cleaning
C15_Witness ==
  /\ Done("process")
  /\ outcome = "return"
  /\ args.source_name.s # <<>>
  /\ args.data.s = <<"é", " ", " ">>
  /\ ret.review.hash.md5.of = <<"0xC3", "0xA9", " ", " ">>
  /\ ret.review.hash.cleaned_sha256.of = <<"0xC3", "0xA9">>

(***************************************************************************)
(* The language hints the state shows, each with the raw text.             *)
(***************************************************************************)
HintObs ==
  IF Done("process") /\ outcome = "return"
    THEN {[data |-> args.data.s,
           hint |-> ret.extraction.metadata.language_hint]}
  ELSE {}

\* the occurrences in s of a listed word next to a space: the word and the
\* place where it starts
Occurrences(s) ==
  {o \in (1..Len(common_english_words)) \X (1..Len(s)) :
     LET w == common_english_words[o[1]]
         first == o[2]
         last == o[2] + Len(w) - 1
     IN /\ last <= Len(s)
        /\ SubSeq(s, first, last) = w
        /\ \/ first > 1 /\ s[first - 1] = " "
           \/ last < Len(s) /\ s[last + 1] = " "}

\* the count the hint is decided on: for every listed word w the number of
\* ' w ', of ' w' and of 'w ' in s (as str.count counts, left to right
\* without overlap), and one more when s starts with 'w '
HintScore(s) ==
  LET sp == <<" ">>
      Score(w) == CountSub(s, sp \o w \o sp) + CountSub(s, sp \o w)
                    + CountSub(s, w \o sp)
                    + (IF StartsWith(s, w \o sp) THEN 1 ELSE 0)
  IN SumSeq([i \in 1..Len(common_english_words) |-> Score(common_english_words[i])])

(***************************************************************************)
(* C16 as stated: the hint is 'likely_english' exactly when the            *)
(* lower-cased text has at least two occurrences of a listed word next to  *)
(* a space.                                                                *)
(***************************************************************************)
C16_TwoOccurrences ==
  \A o \in HintObs :
    o.hint = "likely_english" <=> Cardinality(Occurrences(Lower(o.data))) >= 2

(***************************************************************************)
(* C16, amended: the hint is 'likely_english' exactly when the count is at *)
(* least 2, where an occurrence is counted once for each of ' w ', ' w',   *)
(* 'w ' it matches and once more at the start of the text, so that one     *)
(* occurrence can count 2 or 3; two occurrences always suffice, and a      *)
(* text without any occurrence gets 'unknown'.                             *)
(***************************************************************************)
C16_HintScore ==
  \A o \in HintObs :
    /\ o.hint \in {"likely_english", "unknown"}
    /\ o.hint = "likely_english" <=> HintScore(Lower(o.data)) >= 2
    /\ Cardinality(Occurrences(Lower(o.data))) >= 2 => o.hint = "likely_english"
    /\ Occurrences(Lower(o.data)) = {} => o.hint = "unknown"

\* one occurrence, at the start of the text, counted twice
C16_Witness ==
  /\ Done("process")
  /\ outcome = "return"
  /\ args.data.s = <<"a", " ">>
  /\ Cardinality(Occurrences(args.data.s)) = 1
  /\ ret.extraction.metadata.language_hint = "likely_english"

(***************************************************************************)
(* C17: in every report of a text, word_count >= 1 implies                 *)
(* sentence_count >= 1, char_count >= 1 and data_size_bytes >= 1; so the   *)
(* number of passed checks is 0, 2, 3 or 4, never 1, and overall_status    *)
(* is INVALID exactly when the score is below 1.0.                         *)
(***************************************************************************)
C17_ChecksAgree ==
  (Done("process") /\ outcome = "return") =>
    LET text == ret.extraction.text
        summary == ret.review.point_by_point_validation.summary
        status == ret.review.overall_status
    IN /\ text.word_count >= 1 =>
            /\ text.sentence_count >= 1
            /\ text.char_count >= 1
            /\ ret.extraction.metadata.data_size_bytes >= 1
       /\ summary.total_checks = 4
       /\ summary.passed \in {0, 2, 3, 4}
       /\ status = "INVALID" <=> summary.score < 100
       /\ status \in {"WARNING", "VALID"} => summary.score = 100

\* one word without a terminator: one sentence, all four checks pass
C17_Witness ==
  /\ Done("process")
  /\ outcome = "return"
  /\ args.data.s = <<"a">>
  /\ ret.extraction.text.word_count = 1
  /\ ret.extraction.text.sentence_count = 1
  /\ ret.review.point_by_point_validation.summary.passed = 4
  /\ ret.review.overall_status = "WARNING"

====
